---- MODULE Spec2Model ----
\* Model of prediction/src/algorithms/segment/src/models/unet_3d_model.py:
\* the construction pipeline of the 3D U-Net (unet_model_3d), the shape helper
\* compute_level_output_shape, the upsampling selector get_upconv, and the
\* Simple3DModel object with its two unimplemented hooks.
\*
\* Tensors are represented by their shape without the batch axis, channels
\* last: <<x, y, z, channels>>.  The empty tuple stands for "no tensor".
EXTENDS Integers, Sequences, FiniteSets, TLC

\* ---------------------------------------------------------------- bounds
MaxDim == 10         \* spatial dimensions range over 0..MaxDim
MaxPool == 2         \* pool factors range over 1..MaxPool
MaxFactor == 3       \* downsize_filters_factor ranges over 1..MaxFactor
MaxLabels == 2       \* n_labels ranges over 1..MaxLabels
MaxChannels == 1     \* input channels range over 1..MaxChannels
MaxHookCalls == 2    \* number of _fit/_predict calls followed in one run
MaxDepth == 3        \* depth of a direct compute_level_output_shape call: 0..MaxDepth

VARIABLES
  caller,                   \* who runs unet_model_3d: the constructor or a direct call
  input_shape,              \* argument (x, y, z, channels)
  downsize_filters_factor,  \* argument
  pool_size,                \* argument
  n_labels,                 \* argument
  deconvolution,            \* argument
  pc,                       \* position in the construction pipeline
  tensors,                  \* shapes of the local tensor variables
  convs,                    \* filter counts of the Conv3D layers, in creation order
  ups,                      \* the layers returned by get_upconv, in call order
  contrib,                  \* what is known of keras_contrib: unknown / installed / missing
  imports,                  \* number of executions of the keras_contrib import
  model,                    \* the local Model object of unet_model_3d
  returned,                 \* the value unet_model_3d returned
  self_model,               \* Simple3DModel.model
  raised,                   \* the exception that left the last call, if any
  hookCalls,                \* number of _fit/_predict calls made so far
  level                     \* a direct call of compute_level_output_shape: arguments and result

vars == <<caller, input_shape, downsize_filters_factor, pool_size, n_labels,
          deconvolution, pc, tensors, convs, ups, contrib, imports, model,
          returned, self_model, raised, hookCalls, level>>

\* What no step of unet_model_3d or of the hooks changes: the arguments, and
\* the record of a direct call of the helper.
args == <<caller, input_shape, downsize_filters_factor, pool_size, n_labels,
          deconvolution, level>>

\* ---------------------------------------------------------------- values
None == "None"
NoTensor == <<>>
NoModel == [created |-> 0, compiled |-> 0, inputs |-> NoTensor,
            outputs |-> NoTensor, optimizer |-> None, lr |-> None,
            loss |-> None, metrics |-> None]
NoCall == [filters |-> 0, depth |-> 0, pool_size |-> <<1, 1, 1>>,
           image_shape |-> <<0, 0, 0>>, result |-> NoTensor]
NoError == [type |-> None, msg |-> None, at |-> None]

ImportErrorMsg ==
  "Install keras_contrib in order to use deconvolution. Otherwise set deconvolution=False."
FitMsg == "Must implement '_fit()'"
PredictMsg == "Must implement '_predict()'"

\* A failure raised by the framework while it infers a layer's output shape.
ShapeError(at) == [type |-> "ShapeError", msg |-> "shape mismatch", at |-> at]

Spatial(x) == <<x[1], x[2], x[3]>>

\* Python's int(a / b) for integers a, b with b /= 0: truncation toward zero.
int(a, b) ==
  LET n == IF a < 0 THEN -a ELSE a
      d == IF b < 0 THEN -b ELSE b
      q == n \div d
  IN IF (a < 0) = (b < 0) THEN q ELSE -q

\* int(base / downsize_filters_factor), the filter count of every Conv3D.
FiltersRounded(base) ==
  (2 * base + downsize_filters_factor) \div (2 * downsize_filters_factor)
Filters(base) == int(base, downsize_filters_factor)

\* ---------------------------------------------------------------- layers
\* Conv3D(filters, (3, 3, 3), padding='same'): spatial dimensions are kept,
\* the channel axis becomes filters.
Conv3D(filters, x) == <<x[1], x[2], x[3], filters>>

\* MaxPooling3D(pool_size=ps) with its default strides (= ps) and 'valid'
\* padding: every spatial dimension d becomes d \div ps[i].  A dimension
\* smaller than the pool window is backend-dependent: the shape inference
\* either rejects it (no tensor) or yields a dimension of 0.  The operator is
\* the set of possible results.
MaxPooling3D(ps, x) ==
  LET floored == <<x[1] \div ps[1], x[2] \div ps[2], x[3] \div ps[3], x[4]>>
  IN IF \A i \in 1..3 : x[i] >= ps[i] THEN {floored} ELSE {floored, NoTensor}

\* UpSampling3D(size): every spatial dimension is repeated size[i] times.
UpSampling3DIdentity(size, x) == x
UpSampling3D(size, x) == <<x[1] * size[1], x[2] * size[2], x[3] * size[3], x[4]>>

\* concatenate([a, b], axis=4): all axes but the channel axis must agree.
concatenate(a, b) ==
  IF Spatial(a) = Spatial(b) THEN <<a[1], a[2], a[3], a[4] + b[4]>> ELSE NoTensor

\* ------------------------------------------- compute_level_output_shape
compute_level_output_shape_pow(filters, depth, ps, image_shape) ==
  LET pw(p) == IF depth = 0 THEN 1 ELSE IF depth = 1 THEN p
               ELSE IF depth = 2 THEN p * p ELSE p * p * p
  IN <<None, filters, int(image_shape[1], pw(ps[1])),
       int(image_shape[2], pw(ps[2])), int(image_shape[3], pw(ps[3]))>>
compute_level_output_shape(filters, depth, ps, image_shape) ==
  LET output_image_shape ==
        IF depth # 0
        THEN [i \in 1..3 |-> int(image_shape[i], ps[i] * depth)]
        ELSE image_shape
  IN <<None, filters, output_image_shape[1], output_image_shape[2],
       output_image_shape[3]>>

\* ------------------------------------------------------------ get_upconv
\* available is the outcome of "from keras_contrib.layers import
\* Deconvolution3D"; it is only looked at when deconv is set.
get_upconv_fallback(depth, nb_filters, ps, image_shape, deconv, available) ==
  IF deconv /\ available
  THEN [raised |-> FALSE, imported |-> TRUE,
        layer |-> [kind |-> "Deconvolution3D", depth |-> depth,
                   filters |-> nb_filters, kernel_size |-> <<2, 2, 2>>,
                   strides |-> <<2, 2, 2>>, size |-> ps, image |-> image_shape,
                   output_shape |-> compute_level_output_shape(nb_filters, depth, ps, image_shape),
                   input_shape |-> compute_level_output_shape(nb_filters, depth + 1, ps, image_shape)]]
  ELSE [raised |-> FALSE, imported |-> deconv,
        layer |-> [kind |-> "UpSampling3D", depth |-> depth,
                   filters |-> nb_filters, kernel_size |-> <<2, 2, 2>>,
                   strides |-> <<2, 2, 2>>, size |-> ps, image |-> image_shape,
                   output_shape |-> NoTensor, input_shape |-> NoTensor]]
get_upconv(depth, nb_filters, ps, image_shape, deconv, available) ==
  IF deconv
  THEN IF ~available
       THEN [raised |-> TRUE, imported |-> TRUE, layer |-> None]
       ELSE [raised |-> FALSE, imported |-> TRUE,
             layer |-> [kind |-> "Deconvolution3D", depth |-> depth,
                        filters |-> nb_filters, kernel_size |-> <<2, 2, 2>>,
                        strides |-> <<2, 2, 2>>, size |-> ps, image |-> image_shape,
                        output_shape |-> compute_level_output_shape(nb_filters, depth, ps, image_shape),
                        input_shape |-> compute_level_output_shape(nb_filters, depth + 1, ps, image_shape)]]
  ELSE [raised |-> FALSE, imported |-> deconv,
        layer |-> [kind |-> "UpSampling3D", depth |-> depth,
                   filters |-> nb_filters, kernel_size |-> <<2, 2, 2>>,
                   strides |-> <<2, 2, 2>>, size |-> ps, image |-> image_shape,
                   output_shape |-> NoTensor, input_shape |-> NoTensor]]

\* Calling the layer get_upconv returned on tensor x.  Deconvolution3D yields
\* the output shape it was constructed with, (batch, filters, d1, d2, d3);
\* the input_shape keyword is not consulted when a layer is called on a tensor.
ApplyUpconv(layer, x) ==
  IF layer.kind = "UpSampling3D"
  THEN UpSampling3D(layer.size, x)
  ELSE <<layer.output_shape[3], layer.output_shape[4], layer.output_shape[5],
         layer.output_shape[2]>>


\* ------------------------------------------------- Model and its compile
\* Model(inputs=inputs, outputs=act)
Model(inputs, outputs) ==
  [created |-> 1, compiled |-> 0, inputs |-> inputs, outputs |-> outputs,
   optimizer |-> None, lr |-> None, loss |-> None, metrics |-> None]

\* model.compile(optimizer=Adam(lr=initial_learning_rate),
\*               loss=dice_coef_loss, metrics=[dice_coef])
compile_twice(m) ==
  [m EXCEPT !.compiled = @ + 2, !.optimizer = "Adam", !.lr = "0.01",
            !.loss = "dice_coef_loss", !.metrics = <<"dice_coef">>]
compile(m) ==
  [m EXCEPT !.compiled = @ + 1, !.optimizer = "Adam", !.lr = "0.01",
            !.loss = "dice_coef_loss", !.metrics = <<"dice_coef">>]

\* ----------------------------------------------------------------- hooks
\* What a call of the hook does: the exception it raises and the object's
\* model after the call.
fit_silent(m, X, y) == [raised |-> NoError, model |-> m]
_fit(m, X, y) ==
  [raised |-> [type |-> "NotImplementedError", msg |-> FitMsg, at |-> "_fit"],
   model |-> m]

_predict(m, X) ==
  [raised |-> [type |-> "NotImplementedError", msg |-> PredictMsg, at |-> "_predict"],
   model |-> m]

\* ------------------------------------------------------------------ Init
Dims == 0..MaxDim
Shapes == {<<x, y, z, c>> : x \in Dims, y \in Dims, z \in Dims, c \in 1..MaxChannels}
PoolSizes == {<<a, b, c>> : a \in 1..MaxPool, b \in 1..MaxPool, c \in 1..MaxPool}
Data == {0, 1}

NoTensors ==
  [inputs |-> NoTensor, conv1 |-> NoTensor, pool1 |-> NoTensor,
   conv2 |-> NoTensor, pool2 |-> NoTensor, conv3 |-> NoTensor,
   pool3 |-> NoTensor, conv4 |-> NoTensor, up5 |-> NoTensor,
   conv5 |-> NoTensor, up6 |-> NoTensor, conv6 |-> NoTensor,
   up7 |-> NoTensor, conv7 |-> NoTensor, conv8 |-> NoTensor, act |-> NoTensor]

\* Simple3DModel.__init__ calls unet_model_3d(input_shape=DATA_SHAPE): every
\* other parameter has its default.  DATA_SHAPE is a constant of another
\* module; it ranges over Shapes.  A direct call chooses every parameter.
\* initial_learning_rate only reaches the optimizer and is kept at its default.
Init ==
  /\ caller \in {"Simple3DModel", "unet_model_3d"}
  /\ input_shape \in Shapes
  /\ IF caller = "Simple3DModel"
     THEN /\ downsize_filters_factor = 1
          /\ pool_size = <<2, 2, 2>>
          /\ n_labels = 1
          /\ deconvolution = FALSE
     ELSE /\ downsize_filters_factor \in 1..MaxFactor
          /\ pool_size \in PoolSizes
          /\ n_labels \in 1..MaxLabels
          /\ deconvolution \in BOOLEAN
  /\ pc = "Input"
  /\ tensors = NoTensors
  /\ convs = <<>>
  /\ ups = <<>>
  /\ contrib = "unknown"
  /\ imports = 0
  /\ model = NoModel
  /\ returned = NoModel
  /\ self_model = NoModel
  /\ raised = NoError
  /\ hookCalls = 0
  /\ level = NoCall


\* -------------------------------------------------------- unet_model_3d
\* An exception leaves unet_model_3d (and the constructor, when it is the
\* caller): nothing is returned and nothing is assigned.
Raise(err) ==
  /\ pc' = "raised"
  /\ raised' = err

\* line 32: inputs = Input(input_shape).  The shape is taken as it is.
InputLayer ==
  /\ pc = "Input"
  /\ tensors' = [tensors EXCEPT !.inputs = input_shape]
  /\ pc' = "level0"
  /\ UNCHANGED <<args, convs, ups, contrib, imports, model, returned,
                 self_model, raised, hookCalls>>

\* One encoder level with pooling: two Conv3D, then MaxPooling3D.
EncoderLevel(here, next, src, conv, pool, base1, base2) ==
  /\ pc = here
  /\ LET c == Conv3D(Filters(base2), Conv3D(Filters(base1), tensors[src]))
     IN \E p \in MaxPooling3D(pool_size, c) :
          /\ convs' = convs \o <<Filters(base1), Filters(base2)>>
          /\ IF p = NoTensor
             THEN /\ tensors' = [tensors EXCEPT ![conv] = c]
                  /\ Raise(ShapeError(pool))
             ELSE /\ tensors' = [tensors EXCEPT ![conv] = c, ![pool] = p]
                  /\ pc' = next
                  /\ raised' = raised
  /\ UNCHANGED <<args, ups, contrib, imports, model, returned, self_model,
                 hookCalls>>

\* lines 33-35
Level0 == EncoderLevel("level0", "level1", "inputs", "conv1", "pool1", 32, 64)
\* lines 37-39
Level1 == EncoderLevel("level1", "level2", "pool1", "conv2", "pool2", 64, 128)
\* lines 41-44
Level2 == EncoderLevel("level2", "level3", "pool2", "conv3", "pool3", 128, 256)

\* lines 46-48: the bottleneck, two Conv3D and no pooling.
Level3 ==
  /\ pc = "level3"
  /\ tensors' = [tensors EXCEPT
                   !.conv4 = Conv3D(Filters(512), Conv3D(Filters(256), tensors.pool3))]
  /\ convs' = convs \o <<Filters(256), Filters(512)>>
  /\ pc' = "up5"
  /\ UNCHANGED <<args, ups, contrib, imports, model, returned, self_model,
                 raised, hookCalls>>

\* input_shape[-3:], the last three entries of the 4-tuple.
LastThree(shape) == <<shape[2], shape[3], shape[4]>>

\* up = get_upconv(pool_size=pool_size, deconvolution=deconvolution,
\*                 depth=depth, nb_filters=int(base / f),
\*                 image_shape=input_shape[-3:])(src)
\* The import inside get_upconv succeeds or fails with the environment; what
\* one import found, the next finds again.
Upconv(here, next, depth, base, src, up) ==
  /\ pc = here
  /\ \E available \in (IF contrib = "unknown" THEN BOOLEAN
                        ELSE {contrib = "installed"}) :
       LET r == get_upconv(depth, Filters(base), pool_size,
                           LastThree(input_shape), deconvolution, available)
       IN /\ imports' = imports + (IF r.imported THEN 1 ELSE 0)
          /\ contrib' = IF r.imported
                        THEN (IF available THEN "installed" ELSE "missing")
                        ELSE contrib
          /\ IF r.raised
             THEN /\ Raise([type |-> "ImportError", msg |-> ImportErrorMsg,
                            at |-> here])
                  /\ UNCHANGED <<ups, tensors>>
             ELSE /\ ups' = Append(ups, r.layer)
                  /\ tensors' = [tensors EXCEPT
                                   ![up] = ApplyUpconv(r.layer, tensors[src])]
                  /\ pc' = next
                  /\ raised' = raised
  /\ UNCHANGED <<args, convs, model, returned, self_model, hookCalls>>

\* up = concatenate([up, skip], axis=4), then two Conv3D.
Decoder(here, next, up, skip, conv, base) ==
  /\ pc = here
  /\ LET cat == concatenate(tensors[up], tensors[skip])
     IN IF cat = NoTensor
        THEN /\ Raise(ShapeError(here))
             /\ UNCHANGED <<tensors, convs>>
        ELSE /\ tensors' = [tensors EXCEPT
                              ![up] = cat,
                              ![conv] = Conv3D(Filters(base), Conv3D(Filters(base), cat))]
             /\ convs' = convs \o <<Filters(base), Filters(base)>>
             /\ pc' = next
             /\ raised' = raised
  /\ UNCHANGED <<args, ups, contrib, imports, model, returned, self_model,
                 hookCalls>>

\* lines 50-52
Up5 == Upconv("up5", "concat5", 2, 512, "conv4", "up5")
\* lines 53-55
Decoder5 == Decoder("concat5", "up6", "up5", "conv3", "conv5", 256)
\* lines 57-58
Up6 == Upconv("up6", "concat6", 1, 256, "conv5", "up6")
\* lines 59-61
Decoder6 == Decoder("concat6", "up7", "up6", "conv2", "conv6", 128)
\* lines 63-64
Up7 == Upconv("up7", "concat7", 0, 128, "conv6", "up7")
\* lines 65-67
Decoder7 == Decoder("concat7", "final", "up7", "conv1", "conv7", 64)

\* lines 69-71: the 1x1x1 convolution, the sigmoid and the Model object.
Final ==
  /\ pc = "final"
  /\ LET c8 == Conv3D(n_labels, tensors.conv7)
     IN /\ tensors' = [tensors EXCEPT !.conv8 = c8, !.act = c8]
        /\ convs' = Append(convs, n_labels)
        /\ model' = Model(tensors.inputs, c8)
  /\ pc' = "compile"
  /\ UNCHANGED <<args, ups, contrib, imports, returned, self_model, raised,
                 hookCalls>>

\* lines 73-74
Compile ==
  /\ pc = "compile"
  /\ model' = compile(model)
  /\ pc' = "return"
  /\ UNCHANGED <<args, tensors, convs, ups, contrib, imports, returned,
                 self_model, raised, hookCalls>>

\* line 76: return model; line 78: self.model = unet_model_3d(...)
Return ==
  /\ pc = "return"
  /\ returned' = model
  /\ self_model' = IF caller = "Simple3DModel" THEN model ELSE self_model
  /\ pc' = "returned"
  /\ UNCHANGED <<args, tensors, convs, ups, contrib, imports, model, raised,
                 hookCalls>>

\* ----------------------------------------------------- Simple3DModel hooks
\* The hooks are methods of a constructed object.
Fit ==
  /\ pc = "returned"
  /\ caller = "Simple3DModel"
  /\ hookCalls < MaxHookCalls
  /\ \E X \in Data, y \in Data :
       LET r == _fit(self_model, X, y)
       IN /\ raised' = r.raised
          /\ self_model' = r.model
  /\ hookCalls' = hookCalls + 1
  /\ UNCHANGED <<args, pc, tensors, convs, ups, contrib, imports, model,
                 returned>>

Predict ==
  /\ pc = "returned"
  /\ caller = "Simple3DModel"
  /\ hookCalls < MaxHookCalls
  /\ \E X \in Data :
       LET r == _predict(self_model, X)
       IN /\ raised' = r.raised
          /\ self_model' = r.model
  /\ hookCalls' = hookCalls + 1
  /\ UNCHANGED <<args, pc, tensors, convs, ups, contrib, imports, model,
                 returned>>

Next ==
  \/ InputLayer
  \/ Level0
  \/ Level1
  \/ Level2
  \/ Level3
  \/ Up5
  \/ Decoder5
  \/ Up6
  \/ Decoder6
  \/ Up7
  \/ Decoder7
  \/ Final
  \/ Compile
  \/ Return
  \/ Fit
  \/ Predict

Spec == Init /\ [][Next]_vars


\* ------------------------------ compute_level_output_shape, called directly
\* The helper is a module-level function; this specification calls it on its
\* own, with every argument drawn from a bounded set.
Images == {<<x, y, z>> : x \in Dims, y \in Dims, z \in Dims}
FilterCounts == {int(b, f) : b \in {128, 256, 512}, f \in 1..MaxFactor}

LevelInit ==
  /\ caller = "compute_level_output_shape"
  /\ level \in [filters : FilterCounts, depth : 0..MaxDepth,
                pool_size : PoolSizes, image_shape : Images,
                result : {NoTensor}]
  /\ input_shape = <<0, 0, 0, 1>>
  /\ downsize_filters_factor = 1
  /\ pool_size = <<2, 2, 2>>
  /\ n_labels = 1
  /\ deconvolution = FALSE
  /\ pc = "compute_level_output_shape"
  /\ tensors = NoTensors
  /\ convs = <<>>
  /\ ups = <<>>
  /\ contrib = "unknown"
  /\ imports = 0
  /\ model = NoModel
  /\ returned = NoModel
  /\ self_model = NoModel
  /\ raised = NoError
  /\ hookCalls = 0

LevelCall ==
  /\ pc = "compute_level_output_shape"
  /\ level' = [level EXCEPT !.result =
                 compute_level_output_shape(level.filters, level.depth,
                                            level.pool_size, level.image_shape)]
  /\ pc' = "returned"
  /\ UNCHANGED <<caller, input_shape, downsize_filters_factor, pool_size,
                 n_labels, deconvolution, tensors, convs, ups, contrib,
                 imports, model, returned, self_model, raised, hookCalls>>

LevelNext == LevelCall

LevelSpec == LevelInit /\ [][LevelNext]_vars


\* ================================================================ claims
Concats == {"concat5", "concat6", "concat7"}
Pools == {"pool1", "pool2", "pool3"}

\* Every spatial dimension is a positive multiple of 8.
PosDiv8 == \A i \in 1..3 : input_shape[i] > 0 /\ input_shape[i] % 8 = 0

\* Every spatial dimension i is a multiple of pool_size[i]^3.
MultipleOfPoolCubed ==
  \A i \in 1..3 : input_shape[i] % (pool_size[i] * pool_size[i] * pool_size[i]) = 0

AllPositive == \A i \in 1..3 : input_shape[i] >= 1

\* The encoder tensor of level k before pooling, and the tensor the
\* upsampling layer of decoder level k is applied to.
EncoderOf(k) == IF k = 2 THEN tensors.conv3 ELSE IF k = 1 THEN tensors.conv2 ELSE tensors.conv1
SourceOf(k) == IF k = 2 THEN tensors.conv4 ELSE IF k = 1 THEN tensors.conv5 ELSE tensors.conv6

\* C1: with pool_size (2, 2, 2), spatial dimensions that are positive
\* multiples of 8 and no failed import, construction never aborts and the
\* returned model's output has the input's spatial dimensions and n_labels
\* channels.
C1_DivisibleBy8Builds ==
  (pool_size = <<2, 2, 2>> /\ PosDiv8 /\ contrib # "missing")
    => /\ pc # "raised"
       /\ pc = "returned" =>
            /\ Spatial(returned.outputs) = Spatial(input_shape)
            /\ returned.outputs[4] = n_labels

\* C2: with pool_size (2, 2, 2) and spatial dimensions divisible by 8, at each
\* of the three concatenations the upsampled tensor and the encoder tensor of
\* the same level have the same spatial dimensions.
C2_ConcatShapesAgree ==
  (pool_size = <<2, 2, 2>> /\ PosDiv8)
    => /\ pc = "concat5" => Spatial(tensors.up5) = Spatial(tensors.conv3)
       /\ pc = "concat6" => Spatial(tensors.up6) = Spatial(tensors.conv2)
       /\ pc = "concat7" => Spatial(tensors.up7) = Spatial(tensors.conv1)

\* C3: every convolution created so far has floor(base / f) filters, the base
\* counts being those of the eight encoder and six decoder convolutions in
\* order; a finished construction has created all fourteen (and the final
\* 1x1x1 convolution).
BaseCounts == <<32, 64, 64, 128, 128, 256, 256, 512, 256, 256, 128, 128, 64, 64>>
C3_FilterCounts ==
  /\ \A i \in 1..Len(convs) :
       i <= 14 => convs[i] = BaseCounts[i] \div downsize_filters_factor
  /\ pc = "returned" => Len(convs) = 15
C3_Witness ==
  /\ pc = "returned"
  /\ downsize_filters_factor = 3
  /\ Len(convs) = 15
  /\ convs[1] = 10
  /\ convs[8] = 170

\* C4: with deconvolution set and keras_contrib missing, get_upconv raises the
\* ImportError with the remedy text at the first upsampling step, after one
\* import attempt; no layer, no model, no compile, nothing returned.  A run
\* with deconvolution set gets past the first upsampling step only with the
\* add-on installed.
C4_ImportError ==
  /\ contrib = "missing" =>
       /\ deconvolution
       /\ pc = "raised"
       /\ raised = [type |-> "ImportError", msg |-> ImportErrorMsg, at |-> "up5"]
       /\ imports = 1
       /\ ups = <<>>
       /\ tensors.up5 = NoTensor
       /\ model = NoModel
       /\ returned = NoModel
       /\ self_model = NoModel
  /\ (deconvolution /\ (Len(ups) > 0 \/ model.created > 0 \/ pc = "returned"))
       => contrib = "installed"
C4_Witness ==
  /\ deconvolution
  /\ contrib = "missing"
  /\ pc = "raised"
  /\ raised.type = "ImportError"
  /\ tensors.conv4 # NoTensor

\* C5: with deconvolution set and the add-on installed, construction on a
\* valid shape succeeds and all three upsampling layers are Deconvolution3D;
\* without deconvolution all upsampling layers are UpSampling3D(pool_size) and
\* the add-on is never imported; the constructor never sets deconvolution.
C5_UpsamplingVariant ==
  /\ (deconvolution /\ contrib = "installed" /\ pool_size = <<2, 2, 2>> /\ PosDiv8)
       => pc # "raised"
  /\ (deconvolution /\ pc = "returned")
       => /\ Len(ups) = 3
          /\ \A k \in 1..3 : ups[k].kind = "Deconvolution3D"
  /\ ~deconvolution
       => /\ imports = 0
          /\ \A k \in 1..Len(ups) :
               ups[k].kind = "UpSampling3D" /\ ups[k].size = pool_size
  /\ caller = "Simple3DModel" => ~deconvolution

C7_HooksRaise ==
  [][hookCalls' # hookCalls =>
       /\ raised'.type = "NotImplementedError"
       /\ raised'.msg \in {FitMsg, PredictMsg}
       /\ raised'.at \in {"_fit", "_predict"}
       /\ self_model' = self_model
       /\ model' = model
       /\ returned' = returned]_vars
C7_Witness ==
  /\ hookCalls >= 2
  /\ raised.type = "NotImplementedError"
  /\ self_model.compiled = 1

\* C8: the model is created once and compiled once; compile happens after
\* the whole graph is wired; the model changes only when it is created and
\* when it is compiled, and what was returned and assigned never changes.
Wired ==
  /\ \A name \in DOMAIN tensors : tensors[name] # NoTensor
  /\ Len(convs) = 15
  /\ Len(ups) = 3
  /\ model.inputs = tensors.inputs
  /\ model.outputs = tensors.act
C8_State ==
  /\ model.created <= 1
  /\ model.compiled <= 1
  /\ model.compiled >= 1 => Wired
  /\ pc = "returned" =>
       /\ returned.created = 1
       /\ returned.compiled = 1
       /\ returned = model
       /\ caller = "Simple3DModel" => self_model = returned
C8_Step ==
  /\ model' # model =>
       \/ pc = "final" /\ model = NoModel /\ model'.compiled = 0
       \/ pc = "compile" /\ model.compiled = 0 /\ Wired
  /\ pc = "returned" => (self_model' = self_model /\ returned' = returned)
C8_Lifecycle == [](C8_State) /\ [][C8_Step]_vars
C8_Witness ==
  /\ caller = "Simple3DModel"
  /\ pc = "returned"
  /\ hookCalls >= 1
  /\ self_model.compiled = 1
  /\ self_model.optimizer = "Adam"

\* C9: a level's spatial shape is the input's divided by the product of the
\* pool sizes applied so far, and every Deconvolution3D layer declares as its
\* output shape the spatial shape of the encoder tensor of its level and as
\* its input shape the spatial shape of the tensor it is applied to.
C9_DeclaredShapes ==
  (AllPositive /\ MultipleOfPoolCubed) =>
    /\ tensors.conv2 # NoTensor =>
         \A i \in 1..3 : tensors.conv2[i] = input_shape[i] \div pool_size[i]
    /\ tensors.conv3 # NoTensor =>
         \A i \in 1..3 :
           tensors.conv3[i] = input_shape[i] \div (pool_size[i] * pool_size[i])
    /\ \A k \in 1..Len(ups) :
         ups[k].kind = "Deconvolution3D" =>
           /\ <<ups[k].output_shape[3], ups[k].output_shape[4],
                ups[k].output_shape[5]>> = Spatial(EncoderOf(ups[k].depth))
           /\ <<ups[k].input_shape[3], ups[k].input_shape[4],
                ups[k].input_shape[5]>> = Spatial(SourceOf(ups[k].depth))

\* C10 as stated: with simple upsampling, construction succeeds exactly for
\* positive multiples of pool_size[i]^3, and every other shape aborts at a
\* concatenation.
C10_AsStated ==
  (~deconvolution /\ pc \in {"returned", "raised"} /\ caller # "compute_level_output_shape")
    => /\ pc = "returned" <=> (AllPositive /\ MultipleOfPoolCubed)
       /\ pc = "raised" =>
            /\ raised.type = "ShapeError"
            /\ raised.at \in Concats
            /\ returned = NoModel

\* C10 amended: with simple upsampling and spatial dimensions of at least 1,
\* the input layer accepts every shape, construction succeeds exactly for
\* multiples of pool_size[i]^3, and every other shape aborts with a shape
\* failure and returns no model: at a concatenation whose two tensors differ,
\* or at a max-pooling whose input has a dimension smaller than the window.
C10_SimpleUpsampling ==
  (~deconvolution /\ AllPositive /\ caller # "compute_level_output_shape")
    => /\ pc # "Input" => tensors.inputs = input_shape
       /\ pc = "returned" => MultipleOfPoolCubed
       /\ (pc \in {"returned", "raised"} /\ MultipleOfPoolCubed) => pc = "returned"
       /\ pc = "raised" =>
            /\ raised.type = "ShapeError"
            /\ raised.at \in Concats \cup Pools
            /\ raised.at = "concat5" => Spatial(tensors.up5) # Spatial(tensors.conv3)
            /\ raised.at = "concat6" => Spatial(tensors.up6) # Spatial(tensors.conv2)
            /\ raised.at = "concat7" => Spatial(tensors.up7) # Spatial(tensors.conv1)
            /\ raised.at = "pool1" => \E i \in 1..3 : tensors.conv1[i] < pool_size[i]
            /\ raised.at = "pool2" => \E i \in 1..3 : tensors.conv2[i] < pool_size[i]
            /\ raised.at = "pool3" => \E i \in 1..3 : tensors.conv3[i] < pool_size[i]
            /\ model = NoModel
            /\ returned = NoModel
            /\ self_model = NoModel
C10_Witness ==
  /\ ~deconvolution
  /\ AllPositive
  /\ pool_size = <<2, 2, 2>>
  /\ input_shape = <<9, 10, 8, 1>>
  /\ pc = "raised"
  /\ raised.at = "concat6"

====
